---- MODULE Spec2Model ----
(***************************************************************************)
(* A model of src/tomo/32id/txm.py: the TxmPV descriptor (a proxy of one   *)
(* EPICS process variable), the TXM session, its write queue (wait_pvs,    *)
(* flush_pvs), the polling wait (wait_pv) and the energy change            *)
(* (move_energy).                                                          *)
(*                                                                         *)
(* One thread of control calls the methods; the transport (pyepics) runs   *)
(* the completion callback of a non-blocking put at some later time.  The  *)
(* transport itself is outside the repository: a get returns any value of  *)
(* RemoteVals(p), a put that was issued is in `inflight` until its         *)
(* callback runs.                                                          *)
(*                                                                         *)
(* Python values are records [t, n]: t is the Python type, n the number    *)
(* in fixed point with Scale units per 1 (so 8.6 is 86 when Scale is 10).  *)
(* Times are whole ticks, TicksPerSecond ticks per second.                 *)
(***************************************************************************)
EXTENDS Integers, Sequences, FiniteSets, TLC

\* ------------------------------------------------------------------ bounds
Scale == 10
TicksPerSecond == 2
MaxQueue == 2
MaxInflight == 2
MaxReads == 2
MaxMoves == 2
MaxSampleWrites == 4

\* ------------------------------------------------------- program constants
DEFAULT_TIMEOUT == 20
SHUTTER_OPEN == 0
SHUTTER_CLOSED == 1
E_RANGE_lo == 5
E_RANGE_hi == 10
ENERGY_WAIT_TIMEOUT == 20
ZP_DIAMETER == 180
DRN == 60
CCD_DEFAULT == 500
DCM_DEFAULT_TENTHS == 86

\* ----------------------------------------------------------- Python values
None == [t |-> "NoneType", n |-> 0]
PyInt(k) == [t |-> "int", n |-> k * Scale]
PyFloat(n) == [t |-> "float", n |-> n]
PyTrue == [t |-> "bool", n |-> Scale]
PyStr(k) == [t |-> "str", n |-> k]

IsNumber(v) == v.t \in {"int", "float", "bool"}

\* Python's == on the values of the model: numbers compare by value
\* whatever their type, everything else by type and content.
PyEq(a, b) == IF IsNumber(a) /\ IsNumber(b) THEN a.n = b.n ELSE a = b

\* float(v): a number, or a string that spells one; None and other strings raise.
PyFloatOf(v) ==
  CASE IsNumber(v) -> [exc |-> "none", v |-> PyFloat(v.n)]
    [] v.t \in {"str:int", "str:float"} -> [exc |-> "none", v |-> PyFloat(v.n)]
    [] v.t = "NoneType" -> [exc |-> "TypeError", v |-> None]
    [] OTHER -> [exc |-> "ValueError", v |-> None]

\* str(v): "5" and "5.0" and "None" are different strings.
PyStrOf(v) ==
  CASE v.t \in {"int", "float", "bool", "NoneType"} ->
         [exc |-> "none", v |-> [t |-> "str:" \o v.t, n |-> v.n]]
    [] OTHER -> [exc |-> "none", v |-> v]

\* ------------------------------------------------------------- the catalog
TXMs == {"txm1", "txm2"}
Prefixes == {"", "32idcPG3:"}

MotorPVs == {"Motor_SampleX", "Motor_SampleY", "Motor_SampleZ", "Motor_SampleRot"}
ShutterPVs == {"ShutterA_Open", "ShutterA_Close", "ShutterA_Move_Status",
               "ShutterB_Open", "ShutterB_Close", "ShutterB_Move_Status"}
EnergyPVs == {"DCMmvt", "GAPputEnergy", "EnergyWait", "DCMputEnergy"}
DetectorPVs == {"Cam1_Acquire", "CCD_Motor", "HDF1_FullFileName_RBV"}
\* A descriptor declared with wait=True, as TxmPV.__init__ allows; the class
\* TXM declares none.
BlockingPVs == {"Blocking_PV"}
PVs == MotorPVs \cup ShutterPVs \cup EnergyPVs \cup DetectorPVs \cup BlockingPVs

\* TxmPV(..., dtype=...)
Dtype(p) ==
  CASE p = "DCMputEnergy" -> "float"
    [] p = "HDF1_FullFileName_RBV" -> "str"
    [] OTHER -> "none"

\* TxmPV(..., default=...)
Default(p) ==
  CASE p = "CCD_Motor" -> PyInt(CCD_DEFAULT)
    [] p = "ShutterA_Move_Status" -> PyInt(0)
    [] p = "ShutterB_Move_Status" -> PyInt(0)
    [] p = "HDF1_FullFileName_RBV" -> PyStr(0)
    [] p = "DCMputEnergy" -> PyFloat((DCM_DEFAULT_TENTHS * Scale) \div 10)
    [] OTHER -> None

\* TxmPV(..., permit_required=True)
PermitRequired(p) ==
  p \in {"ShutterA_Open", "ShutterA_Close", "ShutterB_Open", "ShutterB_Close",
         "DCMmvt", "GAPputEnergy", "DCMputEnergy"}

\* TxmPV(..., wait=...): no process variable of the class TXM sets it.
Wait(p) == p \in BlockingPVs

\* The name template holds {ioc_prefix}.
HasPrefix(p) == p \in {"Cam1_Acquire", "HDF1_FullFileName_RBV"}

\* What a transport get of p may return (the instrument decides).
RemoteVals(p) ==
  CASE p = "DCMputEnergy" -> {PyFloat(0), PyFloat((DCM_DEFAULT_TENTHS * Scale) \div 10)}
    [] p = "CCD_Motor" -> {PyInt(CCD_DEFAULT)}
    [] p = "HDF1_FullFileName_RBV" -> {PyStr(1)}
    [] OTHER -> {PyInt(0), PyInt(1)}

\* --------------------------------------------------------------- the state
VARIABLES
  live,           \* the TXM objects that were constructed
  is_attached,    \* TXM.is_attached
  has_permit,     \* TXM.has_permit
  ioc_prefix,     \* TXM.ioc_prefix
  use_shutter_A,  \* TXM.use_shutter_A
  use_shutter_B,  \* TXM.use_shutter_B
  ZpLocation,     \* TXM.ZpLocation: an instance attribute, no TxmPV
  curr_value,     \* TxmPV.curr_value, one per descriptor
  put_complete,   \* TxmPV.put_complete, one per descriptor
  epicsPV,        \* TxmPV._epicsPV: the prefix it was made with, or "None"
  class_queue,    \* TXM.pv_queue, the list of the class
  has_queue,      \* the object has a pv_queue attribute of its own
  inst_queue,     \* that attribute
  inflight,       \* puts issued whose completion callback has not run
  pc,             \* where the calling thread is
  call,           \* the blocking method it is in: none, flush, wait_pv
  self,           \* the TXM object the running method was called on
  wp,             \* wait_pv's arguments and locals
  me,             \* move_energy's arguments and locals
  ms,             \* move_sample's arguments, and what the call did so far
  last            \* the last call: what it was given and how it ended

session == <<live, is_attached, has_permit, ioc_prefix, use_shutter_A, use_shutter_B>>
proxies == <<curr_value, put_complete, epicsPV>>
queues == <<class_queue, has_queue, inst_queue>>
thread == <<pc, call, self, wp, me, ms>>
vars == <<session, ZpLocation, proxies, queues, inflight, thread, last>>

\* ----------------------------------------------------------------- helpers
Range(q) == {q[i] : i \in 1..Len(q)}
Min(a, b) == IF a < b THEN a ELSE b
RemoveAt(q, i) == SubSeq(q, 1, i - 1) \o SubSeq(q, i + 1, Len(q))

NoCall == [op |-> "none", txm |-> "txm1", pv |-> "none", val |-> None,
           pre |-> None, puts |-> 0, ret |-> None, exc |-> "none",
           pend |-> {}, n |-> 0, warned |-> FALSE, bind |-> "None", made |-> FALSE,
           left |-> "none"]
NoWait == [name |-> "none", target |-> None, timeout |-> 0, elapsed |-> 0, reads |-> 0]
NoSample == [x |-> None, y |-> None, z |-> None,
             pre |-> [p \in MotorPVs |-> None], written |-> <<>>, puts |-> 0]
NoMove == [energy |-> None, constant_mag |-> FALSE, gap_offset |-> 0,
           mag |-> 0, ZP_WD |-> None, new_CCD |-> None, calls |-> 0]

\* txm.pv_queue: the object's own attribute if it has one, else the class's.
Queue(s) == IF has_queue[s] THEN inst_queue[s] ELSE class_queue

\* ---------------------------------------------------------------- TxmPV
\* The prefix the PV object was made with is not looked at.
is_cached_any_prefix(s, p) == epicsPV[p] # "None"
\* get_epics_PV: a PV object is made if there is none or the prefix changed.
is_cached(s, p) == epicsPV[p] # "None" /\ epicsPV[p] = ioc_prefix[s]
get_epics_PV(s, p) == IF is_cached(s, p) THEN epicsPV ELSE [epicsPV EXCEPT ![p] = ioc_prefix[s]]

\* self.dtype(self.curr_value)
Coerce(p, v) ==
  CASE Dtype(p) = "float" -> PyFloatOf(v)
    [] Dtype(p) = "str" -> PyStrOf(v)
    [] OTHER -> [exc |-> "none", v |-> v]

\* __get__ on object s, the transport returning r when it is asked:
\* the new cached value and what the read returns or raises.
GetResult(s, p, r) ==
  LET fetched == IF is_attached[s] THEN r ELSE curr_value[p]
      c == Coerce(p, fetched)
  IN [cached |-> IF c.exc = "none" THEN c.v ELSE fetched, ret |-> c.v, exc |-> c.exc]

\* The permit is never looked at.
permit_clear_always(s, p) == TRUE
\* The permit is looked at on an object that is not attached too.
permit_clear_detached_too(s, p) == ~(PermitRequired(p) /\ ~has_permit[s])

\* __set__: the write is let through unless the object is attached, the
\* process variable needs the permit and the object has none.
permit_clear(s, p) == ~(is_attached[s] /\ PermitRequired(p) /\ ~has_permit[s])

\* __set__: the put is sent to the transport.
SendsPut(s, p) == is_attached[s] /\ permit_clear(s, p)


\* The labels of move_sample: the statement the thread executes next.
SampleLabels == {"ms_x", "ms_y", "ms_z", "ms_rot"}

\* True when the put fits the model's bounds; those of a call of move_sample,
\* which makes up to four writes, are wider.
Room(s) ==
  IF pc \in SampleLabels
  THEN Len(Queue(s)) < MaxSampleWrites /\ Len(inflight) < MaxSampleWrites
  ELSE Len(Queue(s)) < MaxQueue /\ Len(inflight) < MaxInflight

\* txm.pv_queue.append(self)
QueueAppend(s, p) ==
  IF has_queue[s]
  THEN /\ inst_queue' = [inst_queue EXCEPT ![s] = Append(@, p)]
       /\ UNCHANGED <<class_queue, has_queue>>
  ELSE /\ class_queue' = Append(class_queue, p)
       /\ UNCHANGED <<inst_queue, has_queue>>

\* self.pv_queue = []
ResetQueue(s) ==
  /\ has_queue' = [has_queue EXCEPT ![s] = TRUE]
  /\ inst_queue' = [inst_queue EXCEPT ![s] = <<>>]
  /\ UNCHANGED class_queue

\* The puts of object s in flight that it issued since its queue was last emptied.
BatchPending(s) == {i \in 1..Len(inflight) : inflight[i].txm = s /\ inflight[i].batch}
\* A new queue generation of s starts: its earlier puts are no longer of the batch.
Unbatch(s) == [i \in 1..Len(inflight) |->
                 IF inflight[i].txm = s THEN [inflight[i] EXCEPT !.batch = FALSE]
                 ELSE inflight[i]]

\* The calling thread is between two statements of the user's script, outside
\* a with block or in the body of one: the script may use any object there.
ScriptOn(s) == call = "none" /\ s \in live /\ pc \in {"idle", "body"}

\* Where the thread is after a statement of the script: an exception leaves
\* the with block the statement was in (wait_pvs has no try/finally).
AfterStatement(exc) == IF exc = "none" THEN pc ELSE "idle"

\* TxmPV.__get__
Get(s, p) ==
  /\ ScriptOn(s)
  /\ \E r \in RemoteVals(p) :
       LET g == GetResult(s, p, r)
           follows == last.op = "set" /\ last.txm = s /\ last.pv = p
       IN /\ curr_value' = [curr_value EXCEPT ![p] = g.cached]
          /\ epicsPV' = IF is_attached[s] THEN get_epics_PV(s, p) ELSE epicsPV
          /\ last' = [NoCall EXCEPT !.op = "get", !.txm = s, !.pv = p,
                                    !.val = IF follows THEN last.val ELSE None,
                                    !.n = IF follows THEN 1 ELSE 0,
                                    !.bind = epicsPV[p],
                                    !.made = is_attached[s] /\ ~is_cached(s, p),
                                    !.ret = g.ret, !.exc = g.exc]
          /\ pc' = AfterStatement(g.exc)
  /\ UNCHANGED <<session, ZpLocation, put_complete, queues, inflight, call, self, wp, me, ms>>

\* The put is the one of self.DCMmvt = 1: a put in flight keeps this much of
\* the value it carries.
ModePut(p, v) == p = "DCMmvt" /\ v = PyInt(1)

\* TxmPV.__set__ as a step of any method: everything but `thread` and `last`.
\* With wait set the put blocks until it is done and complete_put() is then
\* called without its txm argument, which raises TypeError.
SetPV(s, p, v) ==
  /\ SendsPut(s, p) => Room(s)
  /\ curr_value' = IF permit_clear(s, p) THEN [curr_value EXCEPT ![p] = v] ELSE curr_value
  /\ IF SendsPut(s, p)
     THEN /\ epicsPV' = get_epics_PV(s, p)
          /\ put_complete' = [put_complete EXCEPT ![p] = FALSE]
          /\ QueueAppend(s, p)
          /\ inflight' = IF Wait(p) THEN inflight
                         ELSE Append(inflight, [pv |-> p, txm |-> s, batch |-> TRUE,
                                                mode |-> ModePut(p, v)])
     ELSE /\ put_complete' = IF ~is_attached[s] THEN [put_complete EXCEPT ![p] = TRUE]
                             ELSE put_complete
          /\ UNCHANGED <<epicsPV, queues, inflight>>
SetExc(s, p) == IF SendsPut(s, p) /\ Wait(p) THEN "TypeError" ELSE "none"

\* An assignment txm.p = v of the user's script.
Set(s, p, v) ==
  /\ ScriptOn(s)
  /\ SetPV(s, p, v)
  /\ last' = [NoCall EXCEPT !.op = "set", !.txm = s, !.pv = p, !.val = v,
                            !.pre = curr_value[p],
                            !.puts = Len(inflight') - Len(inflight),
                            !.bind = epicsPV[p],
                            !.made = SendsPut(s, p) /\ ~is_cached(s, p),
                            !.exc = SetExc(s, p)]
  /\ pc' = AfterStatement(SetExc(s, p))
  /\ UNCHANGED <<session, ZpLocation, call, self, wp, me, ms>>

\* An assignment txm.ioc_prefix = x of the user's script.
SetPrefix(s, x) ==
  /\ ScriptOn(s)
  /\ ioc_prefix' = [ioc_prefix EXCEPT ![s] = x]
  /\ last' = [NoCall EXCEPT !.op = "set_prefix", !.txm = s]
  /\ UNCHANGED <<live, is_attached, has_permit, use_shutter_A, use_shutter_B,
                 ZpLocation, proxies, queues, inflight, thread>>

\* TxmPV.complete_put, run by the transport as the callback of put i.
\* With wait set it polls until a read equals the cached value.
CompletePutDone(s, p) ==
  (is_attached[s] /\ Wait(p)) => \E r \in RemoteVals(p) : PyEq(r, curr_value[p])
Deliver(i) ==
  /\ i \in 1..Len(inflight)
  /\ CompletePutDone(inflight[i].txm, inflight[i].pv)
  /\ put_complete' = [put_complete EXCEPT ![inflight[i].pv] = TRUE]
  /\ inflight' = RemoveAt(inflight, i)
  /\ UNCHANGED <<session, ZpLocation, curr_value, epicsPV, queues, thread, last>>

\* ------------------------------------------------- TXM: the write queue
\* The loop of flush_pvs is left at once.
AllComplete_nowait(s) == TRUE

\* flush_pvs's loop condition: all([pv.put_complete for pv in self.pv_queue])
AllComplete(s) == \A p \in Range(Queue(s)) : put_complete[p]

\* flush_pvs, from the poll that finds every put complete to its return.
FlushReturn ==
  /\ call = "flush"
  /\ AllComplete(self)
  /\ ResetQueue(self)
  /\ call' = "none"
  /\ UNCHANGED <<session, ZpLocation, proxies, inflight, pc, self, wp, me, ms, last>>

\* A direct call of flush_pvs.
FlushPvs(s) ==
  /\ call = "none" /\ pc = "idle" /\ s \in live
  /\ pc' = "flush_pvs" /\ call' = "flush" /\ self' = s
  /\ last' = [NoCall EXCEPT !.op = "flush_call", !.txm = s,
                            !.pend = {p \in Range(Queue(s)) : ~put_complete[p]}]
  /\ UNCHANGED <<session, ZpLocation, proxies, queues, inflight, wp, me, ms>>
FlushPvsReturn ==
  /\ call = "none" /\ pc = "flush_pvs"
  /\ pc' = "idle"
  /\ inflight' = Unbatch(self)
  /\ last' = [last EXCEPT !.op = "flush"]
  /\ UNCHANGED <<session, ZpLocation, proxies, queues, call, self, wp, me, ms>>

\* with self.wait_pvs(): the flush before the body ...
WaitPvsEnter(s) ==
  /\ call = "none" /\ pc = "idle" /\ s \in live
  /\ pc' = "wait_pvs_open" /\ call' = "flush" /\ self' = s
  /\ last' = [NoCall EXCEPT !.op = "open_call", !.txm = s,
                            !.pend = {p \in Range(Queue(s)) : ~put_complete[p]}]
  /\ UNCHANGED <<session, ZpLocation, proxies, queues, inflight, wp, me, ms>>
\* ... self.pv_queue = [] and the yield to the body ...
WaitPvsYield ==
  /\ call = "none" /\ pc = "wait_pvs_open"
  /\ ResetQueue(self)
  /\ pc' = "body"
  /\ inflight' = Unbatch(self)
  /\ last' = [last EXCEPT !.op = "open"]
  /\ UNCHANGED <<session, ZpLocation, proxies, call, self, wp, me, ms>>
\* ... the body ends normally: the closing flush ...
WaitPvsExit ==
  /\ call = "none" /\ pc = "body"
  /\ pc' = "wait_pvs_close" /\ call' = "flush"
  /\ last' = [NoCall EXCEPT !.op = "close_call", !.txm = self,
                            !.pend = {p \in Range(Queue(self)) : ~put_complete[p]}]
  /\ UNCHANGED <<session, ZpLocation, proxies, queues, inflight, self, wp, me, ms>>
\* ... and the with statement is left.
WaitPvsReturn ==
  /\ call = "none" /\ pc = "wait_pvs_close"
  /\ pc' = "idle"
  /\ inflight' = Unbatch(self)
  /\ last' = [last EXCEPT !.op = "close"]
  /\ UNCHANGED <<session, ZpLocation, proxies, queues, call, self, wp, me, ms>>

\* ------------------------------------------------------------ TXM.wait_pv
\* The longest time the model measures: no timeout of the model is longer.
MaxElapsed == DEFAULT_TIMEOUT * TicksPerSecond
\* How much later time.time() may be at the next poll than at the last.
Advance == {0, 1, MaxElapsed}

\* The test is made one tick early.
TimedOut_early(timeout, elapsed) ==
  timeout > -1 * TicksPerSecond /\ elapsed + 1 >= timeout

\* if timeout > -1: ... if diffTime >= timeout: raise TimeoutError
TimedOut(timeout, elapsed) ==
  timeout > -1 * TicksPerSecond /\ elapsed >= timeout

\* while(True and self.is_attached)
LoopEntered(s) == is_attached[s]

\* The call of wait_pv as a step of any method: the sleep and startTime.
StartWaitPv(name, target, timeout) ==
  /\ call' = "wait_pv"
  /\ wp' = [name |-> name, target |-> target, timeout |-> timeout,
            elapsed |-> 0, reads |-> 0]

\* The labels of open_shutters and close_shutters: the statement the thread
\* executes next, or goes on with when the wait_pv it is in has returned.
ShutterOps == {"open_shutters", "close_shutters"}
ShutterSteps == {"A", "B", "end"}
ShutterAt(op, step) == op \o ":" \o step
ShutterLabels(op) == {ShutterAt(op, step) : step \in ShutterSteps}

\* The method wait_pv was called from, "script" for the script itself.
Caller ==
  IF pc \in {"idle", "body"} THEN "script"
  ELSE IF \E op \in ShutterOps : pc \in ShutterLabels(op)
       THEN CHOOSE op \in ShutterOps : pc \in ShutterLabels(op)
       ELSE "move_energy"

\* One turn of wait_pv's loop: the attribute is read and compared, and
\* the call returns, raises or sleeps.  Not attached, the loop is not
\* entered and the function ends without a return statement.
WaitPvPoll ==
  /\ call = "wait_pv"
  /\ IF ~LoopEntered(self)
     THEN /\ call' = "none"
          /\ last' = [NoCall EXCEPT !.op = "wait_pv", !.txm = self, !.pv = wp.name,
                                    !.val = wp.target, !.ret = None]
          /\ UNCHANGED <<curr_value, epicsPV, wp, pc>>
     ELSE \E r \in RemoteVals(wp.name), d \in Advance :
            LET g == GetResult(self, wp.name, r)
                diffTime == IF wp.timeout > -1 * TicksPerSecond
                            THEN Min(wp.elapsed + d, MaxElapsed) ELSE wp.elapsed
                exc == IF g.exc # "none" THEN g.exc
                       ELSE IF ~PyEq(g.ret, wp.target) /\ TimedOut(wp.timeout, diffTime)
                       THEN "TimeoutError" ELSE "none"
                done == exc # "none" \/ PyEq(g.ret, wp.target)
            IN /\ curr_value' = [curr_value EXCEPT ![wp.name] = g.cached]
               /\ epicsPV' = get_epics_PV(self, wp.name)
               /\ wp' = [wp EXCEPT !.elapsed = diffTime,
                                   !.reads = Min(@ + 1, MaxReads)]
               /\ call' = IF done THEN "none" ELSE "wait_pv"
               /\ pc' = IF exc # "none" THEN "idle" ELSE pc
               /\ last' = IF ~done THEN last
                          ELSE [NoCall EXCEPT
                                  !.op = IF exc # "none" /\ Caller # "script"
                                         THEN Caller ELSE "wait_pv",
                                  !.txm = self, !.pv = wp.name, !.val = wp.target,
                                  !.ret = IF exc = "none" THEN PyTrue ELSE None,
                                  !.left = IF exc = "none" THEN "none" ELSE pc,
                                  !.exc = exc]
  /\ UNCHANGED <<session, ZpLocation, put_complete, queues, inflight, self, me, ms>>

\* A call of wait_pv by the script.
WaitPv(s, name, target, timeout) ==
  /\ ScriptOn(s)
  /\ self' = s
  /\ StartWaitPv(name, target, timeout)
  /\ last' = [NoCall EXCEPT !.op = "wait_pv_call", !.txm = s, !.pv = name, !.val = target]
  /\ UNCHANGED <<session, ZpLocation, proxies, queues, inflight, pc, me, ms>>

\* -------------------------------------------------------- TXM.move_energy
\* math.sqrt on the fixed-point numbers: the largest r with r * r <= x.
RECURSIVE SqrtBetween(_, _, _)
SqrtBetween(x, lo, hi) ==
  IF lo >= hi THEN lo
  ELSE LET mid == (lo + hi + 1) \div 2
       IN IF mid * mid <= x THEN SqrtBetween(x, mid, hi) ELSE SqrtBetween(x, lo, mid - 1)
Sqrt(x) == SqrtBetween(x, 0, Min(x, 46340))

\* ZP_focal = zp_diameter * drn / (1000.0 * landa), landa = 1240.0 / (energy * 1000.0)
Focal(energy_n) == (ZP_DIAMETER * DRN * energy_n) \div 1240

\* Lines 479 to 483: the magnification now, from the energy and the detector
\* position that were read; exc is the error the arithmetic raises.
Magnification(prev_energy, curr_CCD) ==
  IF ~IsNumber(prev_energy) \/ ~IsNumber(curr_CCD) THEN [exc |-> "TypeError", mag |-> 0]
  ELSE IF prev_energy.n = 0 THEN [exc |-> "ZeroDivisionError", mag |-> 0]
  ELSE LET f == Focal(prev_energy.n)
           disc == curr_CCD.n * curr_CCD.n - 4 * curr_CCD.n * f
       IN IF disc < 0 THEN [exc |-> "ValueError", mag |-> 0]
          ELSE IF f = 0 THEN [exc |-> "ZeroDivisionError", mag |-> 0]
          ELSE LET D == (curr_CCD.n + Sqrt(disc)) \div 2
               IN [exc |-> "none", mag |-> ((D - f) * Scale) \div f]

\* Lines 486 to 490: the zone plate and detector positions at the new energy.
Targets(energy, mag) ==
  LET f == Focal(energy.n)
      dist_ZP_ccd == (mag * f) \div Scale + f
  IN IF dist_ZP_ccd = f THEN [exc |-> "ZeroDivisionError", ZP_WD |-> None, new_CCD |-> None]
     ELSE LET wd == (dist_ZP_ccd * f) \div (dist_ZP_ccd - f)
          IN [exc |-> "none", ZP_WD |-> PyFloat(wd), new_CCD |-> PyFloat(wd + dist_ZP_ccd)]

\* Either bound of the range is refused.
in_range_strict(energy) ==
  E_RANGE_lo * Scale < energy.n /\ energy.n < E_RANGE_hi * Scale

\* in_range = self.E_RANGE[0] <= energy <= self.E_RANGE[1]
in_range(energy) ==
  E_RANGE_lo * Scale <= energy.n /\ energy.n <= E_RANGE_hi * Scale

\* The method runs without the permit.
permit_required_off(s) == TRUE

\* The decorator permit_required: the method runs only if obj.has_permit.
permit_required(s) == has_permit[s]

\* The labels of move_energy: the statement the thread executes next.
MoveLabels == {"me_read", "me_mvt", "me_ccd", "me_open1", "me_yield1", "me_zp",
               "me_dcm", "me_gap", "me_close1", "me_wait1", "me_open2", "me_yield2",
               "me_gap2", "me_close2", "me_wait2", "me_mvt0"}
AtMove(label) == call = "none" /\ pc = label
MoveRaises(exc) ==
  /\ pc' = "idle"
  /\ last' = [NoCall EXCEPT !.op = "move_energy", !.txm = self, !.val = me.energy,
                            !.exc = exc]

\* The call: the decorator's test and the range check (lines 450 to 474).
MoveEnergy(s, energy, constant_mag, gap_offset) ==
  /\ call = "none" /\ pc = "idle" /\ s \in live
  /\ self' = s
  /\ LET exc == IF ~permit_required(s) THEN "PermitError"
                ELSE IF ~in_range(energy) THEN "EnergyError" ELSE "none"
     IN IF exc # "none"
        THEN /\ last' = [NoCall EXCEPT !.op = "move_energy", !.txm = s, !.val = energy,
                                       !.exc = exc]
             /\ UNCHANGED <<pc, me>>
        ELSE /\ me.calls < MaxMoves
             /\ pc' = "me_read"
             /\ me' = [NoMove EXCEPT !.energy = energy, !.constant_mag = constant_mag,
                                     !.gap_offset = gap_offset, !.calls = me.calls + 1]
             /\ last' = [NoCall EXCEPT !.op = "move_energy_call", !.txm = s, !.val = energy]
  /\ UNCHANGED <<session, ZpLocation, proxies, queues, inflight, call, wp, ms>>

\* Lines 476 to 484: both reads and the magnification.
MoveRead ==
  /\ AtMove("me_read")
  /\ \E r1 \in RemoteVals("DCMputEnergy"), r2 \in RemoteVals("CCD_Motor") :
       LET g1 == GetResult(self, "DCMputEnergy", r1)
           g2 == GetResult(self, "CCD_Motor", r2)
           m == Magnification(g1.ret, g2.ret)
           exc == IF g1.exc # "none" THEN g1.exc
                  ELSE IF g2.exc # "none" THEN g2.exc ELSE m.exc
       IN /\ curr_value' = [curr_value EXCEPT
                              !["DCMputEnergy"] = g1.cached,
                              !["CCD_Motor"] = IF g1.exc = "none" THEN g2.cached ELSE @]
          /\ epicsPV' = IF ~is_attached[self] THEN epicsPV
                        ELSE [epicsPV EXCEPT
                                !["DCMputEnergy"] = ioc_prefix[self],
                                !["CCD_Motor"] = IF g1.exc = "none" THEN ioc_prefix[self] ELSE @]
          /\ IF exc # "none"
             THEN MoveRaises(exc) /\ me' = me
             ELSE /\ pc' = "me_mvt"
                  /\ me' = [me EXCEPT !.mag = m.mag]
                  /\ last' = last
  /\ UNCHANGED <<session, ZpLocation, put_complete, queues, inflight, call, self, wp, ms>>

\* A statement self.p = v of the method, then on to label next.
MoveSet(label, p, v, next) ==
  /\ AtMove(label)
  /\ SetPV(self, p, v)
  /\ pc' = next
  /\ UNCHANGED <<session, ZpLocation, call, self, wp, me, ms, last>>

\* Line 485: self.DCMmvt = 1
MoveMvt == MoveSet("me_mvt", "DCMmvt", PyInt(1), "me_ccd")

\* Lines 486 to 494: the targets, and the detector write if constant_mag.
MoveCcd ==
  /\ AtMove("me_ccd")
  /\ LET t == Targets(me.energy, me.mag)
     IN IF t.exc # "none"
        THEN /\ MoveRaises(t.exc)
             /\ UNCHANGED <<proxies, queues, inflight, me>>
        ELSE /\ me' = [me EXCEPT !.ZP_WD = t.ZP_WD, !.new_CCD = t.new_CCD]
             /\ pc' = "me_open1"
             /\ last' = last
             /\ IF me.constant_mag
                THEN SetPV(self, "CCD_Motor", t.new_CCD)
                ELSE UNCHANGED <<proxies, queues, inflight>>
  /\ UNCHANGED <<session, ZpLocation, call, self, wp, ms>>

\* with self.wait_pvs(): the flush before the body is called.
MoveOpen(label, next) ==
  /\ AtMove(label)
  /\ call' = "flush" /\ pc' = next
  /\ UNCHANGED <<session, ZpLocation, proxies, queues, inflight, self, wp, me, ms, last>>
\* self.pv_queue = [] and the yield to the body.
MoveYield(label, next) ==
  /\ AtMove(label)
  /\ ResetQueue(self)
  /\ inflight' = Unbatch(self)
  /\ pc' = next
  /\ UNCHANGED <<session, ZpLocation, proxies, call, self, wp, me, ms, last>>
\* The body is left: the closing flush is called.
MoveClose(label, next) ==
  /\ AtMove(label)
  /\ call' = "flush" /\ pc' = next
  /\ UNCHANGED <<session, ZpLocation, proxies, queues, inflight, self, wp, me, ms, last>>
\* self.wait_pv('EnergyWait', 0, timeout=20), called once the flush returned.
MoveWait(label, next) ==
  /\ AtMove(label)
  /\ StartWaitPv("EnergyWait", PyInt(0), ENERGY_WAIT_TIMEOUT * TicksPerSecond)
  /\ inflight' = Unbatch(self)
  /\ pc' = next
  /\ UNCHANGED <<session, ZpLocation, proxies, queues, self, me, ms, last>>

MoveOpen1 == MoveOpen("me_open1", "me_yield1")
MoveYield1 == MoveYield("me_yield1", "me_zp")
\* Line 498: self.ZpLocation = ZP_WD.  TXM has no TxmPV of that name: the
\* assignment makes an attribute of the object.
MoveZp ==
  /\ AtMove("me_zp")
  /\ ZpLocation' = [ZpLocation EXCEPT ![self] = me.ZP_WD]
  /\ pc' = "me_dcm"
  /\ UNCHANGED <<session, proxies, queues, inflight, call, self, wp, me, ms, last>>
\* Lines 500 and 501
MoveDcm == MoveSet("me_dcm", "DCMputEnergy", me.energy, "me_gap")
MoveGap == MoveSet("me_gap", "GAPputEnergy", me.energy, "me_close1")
MoveClose1 == MoveClose("me_close1", "me_wait1")
MoveWait1 == MoveWait("me_wait1", "me_open2")
\* Lines 504 to 506
MoveOpen2 == MoveOpen("me_open2", "me_yield2")
MoveYield2 == MoveYield("me_yield2", "me_gap2")
MoveGap2 ==
  MoveSet("me_gap2", "GAPputEnergy", PyFloat(me.energy.n + me.gap_offset), "me_close2")
MoveClose2 == MoveClose("me_close2", "me_wait2")
MoveWait2 == MoveWait("me_wait2", "me_mvt0")
\* Line 507: self.DCMmvt = 0, and the method returns.
MoveMvt0 ==
  /\ AtMove("me_mvt0")
  /\ SetPV(self, "DCMmvt", PyInt(0))
  /\ pc' = "idle"
  /\ last' = [NoCall EXCEPT !.op = "move_energy", !.txm = self, !.val = me.energy]
  /\ UNCHANGED <<session, ZpLocation, call, self, wp, me, ms>>

MoveStep ==
  \/ MoveRead \/ MoveMvt \/ MoveCcd
  \/ MoveOpen1 \/ MoveYield1 \/ MoveZp \/ MoveDcm \/ MoveGap \/ MoveClose1 \/ MoveWait1
  \/ MoveOpen2 \/ MoveYield2 \/ MoveGap2 \/ MoveClose2 \/ MoveWait2 \/ MoveMvt0

\* --------------------------------- TXM.open_shutters, TXM.close_shutters
\* The process variable the method writes for shutter sh, its status
\* process variable and the value the method waits for.
ShutterWritePV(op, sh) ==
  IF op = "open_shutters"
  THEN (IF sh = "A" THEN "ShutterA_Open" ELSE "ShutterB_Open")
  ELSE (IF sh = "A" THEN "ShutterA_Close" ELSE "ShutterB_Close")
ShutterStatusPV(sh) == IF sh = "A" THEN "ShutterA_Move_Status" ELSE "ShutterB_Move_Status"
\* Both methods wait for SHUTTER_OPEN.
Sentinel_open_always(op) == PyInt(SHUTTER_OPEN)
Sentinel(op) == IF op = "open_shutters" THEN PyInt(SHUTTER_OPEN) ELSE PyInt(SHUTTER_CLOSED)
Enabled(s, sh) == IF sh = "A" THEN use_shutter_A[s] ELSE use_shutter_B[s]

\* The warning is given on an object that is not attached too.
ShutterWarns_detached_too(s) == ~(use_shutter_A[s] \/ use_shutter_B[s])
\* if self.use_shutter_A or self.use_shutter_B or not self.is_attached:
\* log.info, else warnings.warn
ShutterWarns(s) == ~(use_shutter_A[s] \/ use_shutter_B[s] \/ ~is_attached[s])

\* The call of open_shutters or close_shutters.
Shutters(s, op) ==
  /\ call = "none" /\ pc = "idle" /\ s \in live
  /\ self' = s
  /\ pc' = ShutterAt(op, "A")
  /\ last' = [NoCall EXCEPT !.op = "shutters_call", !.txm = s, !.pv = op]
  /\ UNCHANGED <<session, ZpLocation, proxies, queues, inflight, call, wp, me, ms>>

\* if self.use_shutter_X: self.ShutterX_Open = 1 and the call of wait_pv on
\* the status; the method goes on at label next.
ShutterStep(op, sh, next) ==
  /\ AtMove(ShutterAt(op, sh))
  /\ pc' = ShutterAt(op, next)
  /\ IF Enabled(self, sh)
     THEN /\ SetPV(self, ShutterWritePV(op, sh), PyInt(1))
          /\ StartWaitPv(ShutterStatusPV(sh), Sentinel(op), DEFAULT_TIMEOUT * TicksPerSecond)
          /\ last' = [NoCall EXCEPT !.op = "shutter_write", !.txm = self,
                                    !.pv = ShutterWritePV(op, sh), !.val = PyInt(1),
                                    !.puts = Len(inflight') - Len(inflight)]
     ELSE UNCHANGED <<proxies, queues, inflight, call, wp, last>>
  /\ UNCHANGED <<session, ZpLocation, self, me, ms>>
ShutterA(op) == ShutterStep(op, "A", "B")
ShutterB(op) == ShutterStep(op, "B", "end")

\* The log line or the warning, and the method returns.
ShutterEnd(op) ==
  /\ AtMove(ShutterAt(op, "end"))
  /\ pc' = "idle"
  /\ last' = [NoCall EXCEPT !.op = op, !.txm = self, !.warned = ShutterWarns(self)]
  /\ UNCHANGED <<session, ZpLocation, proxies, queues, inflight, call, self, wp, me, ms>>

\* ------------------------------------------------------- TXM.move_sample
\* Every coordinate is written.
Provided_always(v) == TRUE
\* if x is not None
Provided(v) == v # None

\* The call.
MoveSample(s, x, y, z) ==
  /\ call = "none" /\ pc = "idle" /\ s \in live
  /\ self' = s
  /\ pc' = "ms_x"
  /\ ms' = [NoSample EXCEPT !.x = x, !.y = y, !.z = z,
                            !.pre = [p \in MotorPVs |-> curr_value[p]]]
  /\ last' = [NoCall EXCEPT !.op = "move_sample_call", !.txm = s]
  /\ UNCHANGED <<session, ZpLocation, proxies, queues, inflight, call, wp, me>>

\* What ms records of an assignment to process variable p.
Wrote(p) == [ms EXCEPT !.written = Append(@, p),
                       !.puts = @ + Len(inflight') - Len(inflight)]

\* if v is not None: self.p = float(v)
SampleCoord(label, v, p, next) ==
  /\ AtMove(label)
  /\ LET f == PyFloatOf(v)
     IN IF ~Provided(v)
        THEN /\ pc' = next
             /\ UNCHANGED <<proxies, queues, inflight, ms, last>>
        ELSE IF f.exc # "none"
        THEN /\ pc' = "idle"
             /\ last' = [NoCall EXCEPT !.op = "move_sample", !.txm = self, !.exc = f.exc]
             /\ UNCHANGED <<proxies, queues, inflight, ms>>
        ELSE /\ SetPV(self, p, f.v)
             /\ pc' = next
             /\ ms' = Wrote(p)
             /\ last' = last
  /\ UNCHANGED <<session, ZpLocation, call, self, wp, me>>
\* Lines 440 to 445
MoveSampleX == SampleCoord("ms_x", ms.x, "Motor_SampleX", "ms_y")
MoveSampleY == SampleCoord("ms_y", ms.y, "Motor_SampleY", "ms_z")
MoveSampleZ == SampleCoord("ms_z", ms.z, "Motor_SampleZ", "ms_rot")
\* Lines 446 to 448: self.Motor_SampleRot = 0 and return True
MoveSampleRot ==
  /\ AtMove("ms_rot")
  /\ SetPV(self, "Motor_SampleRot", PyInt(0))
  /\ pc' = "idle"
  /\ ms' = Wrote("Motor_SampleRot")
  /\ last' = [NoCall EXCEPT !.op = "move_sample", !.txm = self, !.ret = PyTrue]
  /\ UNCHANGED <<session, ZpLocation, call, self, wp, me>>

\* ----------------------------------------------------------- txm_required
\* The module decorates no method with txm_required.  The method the model
\* decorates is def real_func(obj, v): obj.Motor_SampleX = v; return v,
\* decorated with @txm_required(return_value), return_value a string.
return_value == PyStr(2)

\* The method is invoked whether the object is attached or not.
txm_required_off(s) == TRUE
\* if obj.is_attached: ret = real_func(obj, *args, **kwargs)
txm_required(s) == is_attached[s]

\* wrapped_func(obj, v): a call of the decorated method by the script.
wrapped_func(s, v) ==
  /\ call = "none" /\ pc = "idle" /\ s \in live
  /\ IF txm_required(s)
     THEN SetPV(s, "Motor_SampleX", v)
     ELSE UNCHANGED <<proxies, queues, inflight>>
  /\ last' = [NoCall EXCEPT !.op = "wrapped_func", !.txm = s, !.val = v,
                            !.pre = curr_value["Motor_SampleX"],
                            !.n = IF txm_required(s) THEN 1 ELSE 0,
                            !.puts = Len(inflight') - Len(inflight),
                            !.ret = IF txm_required(s) THEN v ELSE return_value]
  /\ UNCHANGED <<session, ZpLocation, thread>>

\* ------------------------------------------------------------ the script
\* The process variables and values the script of the model reads and writes.
UserPVs == {"Motor_SampleX", "DCMputEnergy"}
UserVals == {PyInt(0), PyInt(1)}

\* TXM.__init__ of the objects of L, and the class as it is defined; the
\* shutter flags are set by the definitions that use this one.
InitObjects(L) ==
  /\ live = L
  /\ is_attached \in {f \in [TXMs -> BOOLEAN] : \A t \in TXMs \ L : ~f[t]}
  /\ has_permit \in {f \in [TXMs -> BOOLEAN] : \A t \in TXMs \ L : ~f[t]}
  /\ ioc_prefix = [t \in TXMs |-> ""]
  /\ ZpLocation = [t \in TXMs |-> None]
  /\ curr_value = [p \in PVs |-> Default(p)]
  /\ put_complete = [p \in PVs |-> TRUE]
  /\ epicsPV = [p \in PVs |-> "None"]
  /\ class_queue = <<>>
  /\ has_queue = [t \in TXMs |-> FALSE]
  /\ inst_queue = [t \in TXMs |-> <<>>]
  /\ inflight = <<>>
  /\ pc = "idle" /\ call = "none" /\ self = "txm1"
  /\ wp = NoWait /\ me = NoMove /\ ms = NoSample /\ last = NoCall

\* The objects of L constructed with the default use_shutter_A and
\* use_shutter_B.
InitWith(L) ==
  /\ InitObjects(L)
  /\ use_shutter_A = [t \in TXMs |-> FALSE]
  /\ use_shutter_B = [t \in TXMs |-> FALSE]

Init == InitWith({"txm1"})

Next ==
  \/ \E s \in TXMs, p \in UserPVs : Get(s, p)
  \/ \E s \in TXMs, p \in UserPVs, v \in UserVals : Set(s, p, v)
  \/ \E i \in 1..MaxInflight : Deliver(i)
  \/ \E s \in TXMs : FlushPvs(s)
  \/ FlushPvsReturn
  \/ \E s \in TXMs : WaitPvsEnter(s)
  \/ WaitPvsYield
  \/ WaitPvsExit
  \/ WaitPvsReturn
  \/ FlushReturn

Spec == Init /\ [][Next]_vars


\* The script of an object that is not attached: reads and writes only.
SimPVs == {"Motor_SampleX", "DCMputEnergy", "HDF1_FullFileName_RBV"}
InitSim ==
  /\ InitWith(TXMs)
  /\ \A t \in TXMs : ~is_attached[t]
NextSim ==
  \/ \E s \in TXMs, p \in SimPVs : Get(s, p)
  \/ \E s \in TXMs, p \in SimPVs, v \in UserVals : Set(s, p, v)
SpecSim == InitSim /\ [][NextSim]_vars

\* The script that calls wait_pv.
WaitNames == {"EnergyWait", "DCMputEnergy"}
WaitTargets == {PyInt(0), PyInt(1)}
\* Timeouts in ticks: -2 s, -1 s, one tick short of 0, 0, one tick, 1 s
\* and the default.
WaitTimeouts == {-2 * TicksPerSecond, -1 * TicksPerSecond, -1, 0, 1,
                 TicksPerSecond, DEFAULT_TIMEOUT * TicksPerSecond}
NextWait ==
  \/ \E s \in TXMs, name \in WaitNames, target \in WaitTargets, timeout \in WaitTimeouts :
       WaitPv(s, name, target, timeout)
  \/ WaitPvPoll
SpecWait == Init /\ [][NextWait]_vars

\* The script that calls move_energy: energies just below the range, at
\* its bounds and just above it; offsets in fixed point.
Energies == {PyFloat(E_RANGE_lo * Scale - 1), PyFloat(E_RANGE_lo * Scale),
             PyFloat(E_RANGE_hi * Scale), PyFloat(E_RANGE_hi * Scale + 1)}
GapOffsets == {0, 1}
NextEnergy ==
  \/ \E s \in TXMs, energy \in Energies, constant_mag \in BOOLEAN, gap_offset \in GapOffsets :
       MoveEnergy(s, energy, constant_mag, gap_offset)
  \/ MoveStep
  \/ FlushReturn
  \/ WaitPvPoll
  \/ \E i \in 1..MaxInflight : Deliver(i)
SpecEnergy == Init /\ [][NextEnergy]_vars

\* The script of an object without permit: reads, writes, flushes and
\* calls of move_energy.
InitGate ==
  /\ Init
  /\ ~has_permit["txm1"]
NextGate ==
  \/ \E s \in TXMs, p \in UserPVs : Get(s, p)
  \/ \E s \in TXMs, p \in UserPVs, v \in UserVals : Set(s, p, v)
  \/ \E i \in 1..MaxInflight : Deliver(i)
  \/ \E s \in TXMs : FlushPvs(s)
  \/ FlushPvsReturn
  \/ FlushReturn
  \/ \E s \in TXMs, energy \in Energies, constant_mag \in BOOLEAN, gap_offset \in GapOffsets :
       MoveEnergy(s, energy, constant_mag, gap_offset)
SpecGate == InitGate /\ [][NextGate]_vars

\* The script of an attached object with permit that writes the undulator
\* gap itself, flushes, and calls move_energy.
InitPermit ==
  /\ Init
  /\ is_attached["txm1"] /\ has_permit["txm1"]
NextGap ==
  \/ \E s \in TXMs : Set(s, "GAPputEnergy", PyFloat(E_RANGE_lo * Scale))
  \/ \E s \in TXMs : FlushPvs(s)
  \/ FlushPvsReturn
  \/ \E s \in TXMs, gap_offset \in GapOffsets :
       MoveEnergy(s, PyFloat(E_RANGE_hi * Scale), FALSE, gap_offset)
  \/ MoveStep
  \/ FlushReturn
  \/ WaitPvPoll
  \/ \E i \in 1..MaxInflight : Deliver(i)
SpecGap == InitPermit /\ [][NextGap]_vars


\* The script that writes a descriptor declared with wait=True.
NextBlocking ==
  \/ \E s \in TXMs, p \in BlockingPVs : Get(s, p)
  \/ \E s \in TXMs, p \in BlockingPVs \cup {"Motor_SampleX"}, v \in UserVals : Set(s, p, v)
  \/ \E i \in 1..MaxInflight : Deliver(i)
  \/ \E s \in TXMs : FlushPvs(s)
  \/ FlushPvsReturn
  \/ FlushReturn
SpecBlocking == Init /\ [][NextBlocking]_vars

\* The script that opens and closes the shutters, of an object constructed
\* with any use_shutter_A and use_shutter_B.
InitShutter ==
  /\ InitObjects({"txm1"})
  /\ use_shutter_A \in {f \in [TXMs -> BOOLEAN] : \A t \in TXMs \ live : ~f[t]}
  /\ use_shutter_B \in {f \in [TXMs -> BOOLEAN] : \A t \in TXMs \ live : ~f[t]}
NextShutter ==
  \/ \E s \in TXMs, op \in ShutterOps : Shutters(s, op)
  \/ \E op \in ShutterOps : ShutterA(op)
  \/ \E op \in ShutterOps : ShutterB(op)
  \/ \E op \in ShutterOps : ShutterEnd(op)
  \/ WaitPvPoll
  \/ \E i \in 1..MaxInflight : Deliver(i)
SpecShutter == InitShutter /\ [][NextShutter]_vars

\* The script of two attached objects of the class that write the same
\* process variable and flush.
InitTwo ==
  /\ InitWith(TXMs)
  /\ \A t \in TXMs : is_attached[t] /\ has_permit[t]
NextTwo ==
  \/ \E s \in TXMs, v \in UserVals : Set(s, "Motor_SampleX", v)
  \/ \E i \in 1..MaxInflight : Deliver(i)
  \/ \E s \in TXMs : FlushPvs(s)
  \/ FlushPvsReturn
  \/ \E s \in TXMs : WaitPvsEnter(s)
  \/ WaitPvsYield
  \/ WaitPvsExit
  \/ WaitPvsReturn
  \/ FlushReturn
SpecTwo == InitTwo /\ [][NextTwo]_vars

\* The script of two objects that change their ioc_prefix and read and
\* write a process variable whose name holds the prefix and one whose name
\* does not.
PrefixPVs == {"Cam1_Acquire", "Motor_SampleX"}
NextPrefix ==
  \/ \E s \in TXMs, x \in Prefixes : SetPrefix(s, x)
  \/ \E s \in TXMs, p \in PrefixPVs : Get(s, p)
  \/ \E s \in TXMs, p \in PrefixPVs : Set(s, p, PyInt(1))
  \/ \E i \in 1..MaxInflight : Deliver(i)
SpecPrefix == InitTwo /\ [][NextPrefix]_vars

\* The script that calls move_sample: every coordinate left out, given as
\* an int or given as a float.
SampleCoords == {None, PyInt(1), PyFloat(Scale + 1)}
NextSample ==
  \/ \E s \in TXMs, x \in SampleCoords, y \in SampleCoords, z \in SampleCoords :
       MoveSample(s, x, y, z)
  \/ MoveSampleX
  \/ MoveSampleY
  \/ MoveSampleZ
  \/ MoveSampleRot
  \/ \E i \in 1..MaxSampleWrites : Deliver(i)
SpecSample == Init /\ [][NextSample]_vars

\* The script that calls a method decorated with txm_required, reads the
\* process variable the method writes, and flushes.
NextRequired ==
  \/ \E s \in TXMs, v \in UserVals : wrapped_func(s, v)
  \/ \E s \in TXMs : Get(s, "Motor_SampleX")
  \/ \E i \in 1..MaxInflight : Deliver(i)
  \/ \E s \in TXMs : FlushPvs(s)
  \/ FlushPvsReturn
  \/ FlushReturn
SpecRequired == Init /\ [][NextRequired]_vars

\* The script of Spec under the scheduling the program has: the loop of
\* flush_pvs polls every 10 ms, so a flush that can return does; and the
\* transport runs the completion callback of every put that was issued.
Fairness ==
  /\ WF_vars(FlushReturn)
  /\ \A i \in 1..MaxInflight : WF_vars(Deliver(i))
SpecLive == Init /\ [][Next]_vars /\ Fairness

\* The script that writes and calls wait_pv, with a short timeout, inside
\* and outside with self.wait_pvs(), and flushes.
NextScope ==
  \/ \E s \in TXMs : Set(s, "Motor_SampleX", PyInt(1))
  \/ \E s \in TXMs : WaitPv(s, "EnergyWait", PyInt(0), TicksPerSecond)
  \/ WaitPvPoll
  \/ \E i \in 1..MaxInflight : Deliver(i)
  \/ \E s \in TXMs : FlushPvs(s)
  \/ FlushPvsReturn
  \/ \E s \in TXMs : WaitPvsEnter(s)
  \/ WaitPvsYield
  \/ WaitPvsExit
  \/ WaitPvsReturn
  \/ FlushReturn
SpecScope == Init /\ [][NextScope]_vars

\* ------------------------------------------------------------------ claims
\* The last call was an assignment to a process variable that needs the
\* permit, on an object without permit.
SuppressedCase == last.op = "set" /\ PermitRequired(last.pv) /\ ~has_permit[last.txm]

\* C1 as stated: after a write to a permit-required process variable on a
\* session without permit, attached or not, the cached value is what it was
\* before the call and no put was issued.
C1_NoPermitWriteLeavesCache ==
  SuppressedCase => curr_value[last.pv] = last.pre /\ last.puts = 0

\* C1 as amended: after such a write no put was issued; on an attached
\* session the cached value is what it was before the call, on a session
\* that is not attached it is the written value.
C1_NoPermitWriteAttached ==
  SuppressedCase =>
    /\ last.puts = 0
    /\ is_attached[last.txm] => curr_value[last.pv] = last.pre
    /\ ~is_attached[last.txm] => curr_value[last.pv] = last.val
C1_Witness ==
  SuppressedCase /\ is_attached[last.txm] /\ last.val # last.pre /\ put_complete[last.pv]

BatchClosed == call = "none" /\ pc \in {"wait_pvs_close", "flush_pvs"}

\* C3: when the batch close returns, every put the session issued while the
\* batch was open has completed.
C3_CloseWaitsForEveryPut == BatchClosed => BatchPending(self) = {}

\* C4: when the body of wait_pvs starts, every process variable that was
\* queued with put_complete false at the call has put_complete true and the
\* session's pv_queue is empty.
C4_OpenDrainsThenEmpty ==
  last.op = "open" =>
    /\ Queue(last.txm) = <<>>
    /\ \A p \in last.pend : put_complete[p]
C4_Witness == last.op = "open" /\ last.pend # {} /\ pc = "body"


\* wait_pv has ended, on an attached object.
WaitEnded == last.op = "wait_pv" /\ is_attached[last.txm]

C6_NegativeTimeoutWaitsForever ==
  (WaitEnded /\ wp.timeout < 0) =>
    /\ last.exc # "TimeoutError"
    /\ last.ret = PyTrue /\ PyEq(curr_value[wp.name], wp.target)

\* C7: on an object that is not attached wait_pv returns True without
\* reading the attribute.
C7_DetachedReturnsTrue ==
  (last.op = "wait_pv" /\ ~is_attached[last.txm]) =>
    last.ret = PyTrue /\ wp.reads = 0


\* This step is a call of move_energy: it ends at once with an exception
\* (op "move_energy") or goes on to the method's body (op "move_energy_call").
CallsMove ==
  /\ pc = "idle" /\ call = "none"
  /\ last' # last
  /\ last'.op \in {"move_energy", "move_energy_call"}
NoSideEffect == UNCHANGED <<session, ZpLocation, proxies, queues, inflight, pc, call>>

C9_OutOfRangeNoEffect ==
  [][(CallsMove /\ has_permit[last'.txm]) =>
       /\ (last'.val.n < E_RANGE_lo * Scale \/ last'.val.n > E_RANGE_hi * Scale) =>
             (last'.exc = "EnergyError" /\ NoSideEffect)
       /\ last'.val.n \in {E_RANGE_lo * Scale, E_RANGE_hi * Scale} =>
             (last'.exc = "none" /\ pc' = "me_read")]_vars
C9_Witness ==
  /\ last.op = "move_energy" /\ last.exc = "EnergyError"
  /\ is_attached[last.txm] /\ has_permit[last.txm]
  /\ curr_value["DCMmvt"] = PyInt(0)

\* C10: in move_energy on an attached session, when the first batch is
\* closed the writes registered in it are, in this order, the zone plate
\* position, DCMputEnergy and GAPputEnergy.
C10_FirstBatchThreeWrites ==
  (pc = "me_wait1" /\ call = "flush" /\ is_attached[self]) =>
    Queue(self) = <<"ZpLocation", "DCMputEnergy", "GAPputEnergy">>

\* The labels of move_energy after the first batch was opened.
AfterOpen1 == {"me_zp", "me_dcm", "me_gap", "me_close1", "me_wait1", "me_open2",
               "me_yield2", "me_gap2", "me_close2", "me_wait2", "me_mvt0"}
\* move_energy with constant_mag on an attached session.
DetectorCase == pc \in MoveLabels /\ is_attached[self] /\ me.constant_mag

C12_StagesInOrder ==
  (pc \in MoveLabels /\ call = "none" /\ is_attached[self] /\ has_permit[self]) =>
    /\ pc \in {"me_wait1", "me_wait2"} => BatchPending(self) = {}
    /\ pc \in {"me_open2", "me_mvt0"} => PyEq(curr_value["EnergyWait"], PyInt(0))

\* This step is the poll of an EnergyWait wait of move_energy that times out.
TimeoutInMove ==
  /\ call = "wait_pv" /\ pc \in MoveLabels
  /\ call' = "none" /\ last'.exc = "TimeoutError"

C14_BlockingWriteReturns ==
  (last.op = "set" /\ Wait(last.pv) /\ SendsPut(last.txm, last.pv)) =>
    /\ last.exc = "none"
    /\ put_complete[last.pv]
    /\ \E r \in RemoteVals(last.pv) : PyEq(r, last.val)

\* The value open_shutters and close_shutters wait for, as C15 states it.
Awaited(op) == IF op = "open_shutters" THEN SHUTTER_OPEN ELSE SHUTTER_CLOSED
\* The thread is in the wait_pv that op called for shutter sh.
PollsShutter(op, sh) ==
  call = "wait_pv" /\ pc = ShutterAt(op, IF sh = "A" THEN "B" ELSE "end")

C16_NoShutterNoWrite ==
  /\ (~use_shutter_A["txm1"] /\ ~use_shutter_B["txm1"]) =>
       /\ inflight = <<>> /\ Queue("txm1") = <<>>
       /\ \A p \in ShutterPVs : curr_value[p] = Default(p) /\ put_complete[p]
  /\ (last.op \in ShutterOps /\ last.exc = "none") =>
       (last.warned <=>
          (is_attached[last.txm] /\ ~use_shutter_A[last.txm] /\ ~use_shutter_B[last.txm]))
  /\ ~is_attached["txm1"] =>
       /\ inflight = <<>> /\ Queue("txm1") = <<>>
       /\ \A p \in PVs : epicsPV[p] = "None"
       /\ wp.reads = 0
       /\ last.exc = "none"
C16_Witness ==
  /\ last.op = "open_shutters" /\ ~is_attached[last.txm]
  /\ use_shutter_A[last.txm] /\ use_shutter_B[last.txm]
  /\ ~last.warned
  /\ curr_value["ShutterB_Open"] = PyInt(1)

\* C17: a flush of a session, at a batch open, a batch close or a direct
\* call, waits only for writes of that session: a queued process variable
\* whose put_complete it finds false has a put in flight that the session
\* itself issued.
C17_FlushWaitsForOwnWrites ==
  call = "flush" =>
    \A p \in Range(Queue(self)) :
      ~put_complete[p] =>
        \E i \in 1..Len(inflight) : inflight[i].pv = p /\ inflight[i].txm = self

\* The last call was a read or a write that used the transport.
UsedTransport ==
  \/ last.op = "get" /\ is_attached[last.txm]
  \/ last.op = "set" /\ is_attached[last.txm] /\ last.puts = 1

\* C18: after a read or write that used the transport, the binding of the
\* process variable is one made with the prefix of the session that made
\* the call; it was made in the call if there was none before or the one
\* before was made with another prefix, and is the one before otherwise.
C18_BindingFollowsPrefix ==
  UsedTransport =>
    /\ epicsPV[last.pv] = ioc_prefix[last.txm]
    /\ last.made <=> (last.bind = "None" \/ last.bind # ioc_prefix[last.txm])
C18_Witness ==
  /\ UsedTransport /\ last.op = "get" /\ last.txm = "txm2" /\ last.pv = "Cam1_Acquire"
  /\ last.made /\ last.bind = "" /\ ioc_prefix["txm2"] # ""
  /\ ioc_prefix["txm1"] = ""

\* The process variables C19 expects move_sample to write, in order.
ExpectedWrites ==
  (IF ms.x # None THEN <<"Motor_SampleX">> ELSE <<>>) \o
  (IF ms.y # None THEN <<"Motor_SampleY">> ELSE <<>>) \o
  (IF ms.z # None THEN <<"Motor_SampleZ">> ELSE <<>>) \o <<"Motor_SampleRot">>
\* The cached value C19 expects for a coordinate's process variable.
ExpectedCoord(v, p) == IF v = None THEN ms.pre[p] ELSE PyFloat(v.n)

\* C19: when move_sample returns it has written, in this order, the motors
\* of the coordinates given and then 0 to Motor_SampleRot, one put each on
\* an attached session and none otherwise; the cached value of a
\* coordinate left out is what it was at the call, and the call returns
\* True.
C19_MoveSampleWrites ==
  last.op = "move_sample" =>
    /\ last.exc = "none" /\ last.ret = PyTrue /\ pc = "idle"
    /\ ms.written = ExpectedWrites
    /\ ms.puts = IF is_attached[last.txm] THEN Len(ExpectedWrites) ELSE 0
    /\ curr_value["Motor_SampleX"] = ExpectedCoord(ms.x, "Motor_SampleX")
    /\ curr_value["Motor_SampleY"] = ExpectedCoord(ms.y, "Motor_SampleY")
    /\ curr_value["Motor_SampleZ"] = ExpectedCoord(ms.z, "Motor_SampleZ")
    /\ curr_value["Motor_SampleRot"] = PyInt(0)
C19_Witness ==
  /\ last.op = "move_sample" /\ is_attached[last.txm]
  /\ ms.x = PyInt(1) /\ ms.y = None /\ ms.z # None
  /\ curr_value["Motor_SampleY"] = None
  /\ ~put_complete["Motor_SampleX"] /\ ~put_complete["Motor_SampleZ"]
  /\ ~put_complete["Motor_SampleRot"]
  /\ Len(inflight) >= 3

\* C20: a call of a method decorated with txm_required on a session that is
\* not attached does not invoke the method (the value it would write is not
\* cached, no put is made) and returns the decorator's return_value; on an
\* attached session the method is invoked once with the argument given
\* (its write is made, with one put) and its result is returned.
C20_AttachmentGuard ==
  last.op = "wrapped_func" =>
    IF is_attached[last.txm]
    THEN /\ last.n = 1 /\ last.ret = last.val
         /\ curr_value["Motor_SampleX"] = last.val
         /\ last.puts = 1
    ELSE /\ last.n = 0 /\ last.ret = PyStr(2)
         /\ curr_value["Motor_SampleX"] = last.pre
         /\ last.puts = 0 /\ inflight = <<>> /\ Queue(last.txm) = <<>>
         /\ put_complete["Motor_SampleX"]
C20_Witness ==
  /\ last.op = "wrapped_func" /\ ~is_attached[last.txm]
  /\ last.val = PyInt(1) /\ curr_value["Motor_SampleX"] = None
  /\ last.ret.t = "str"

\* A flush that was called returns.
FlushEventuallyReturns == (call = "flush") ~> (call = "none")
\* A flush returns only when no put the session issued since its queue was
\* last emptied is in flight, and it raises nothing.
FlushReturnsOnlyDrained ==
  [][(call = "flush" /\ call' = "none") =>
       (BatchPending(self) = {} /\ last'.exc = "none")]_vars

\* C21: flush_pvs has no timeout: if the callback of every put is run in
\* the end a flush that was called returns, and as long as a put registered
\* in the queue is in flight the flush does not return and raises nothing.
C21_FlushBlocksUntilDelivered == FlushEventuallyReturns /\ FlushReturnsOnlyDrained

\* C22: in move_energy on an attached session with permit, from the body of
\* the first batch on, where DCMputEnergy and GAPputEnergy are written, no
\* put of DCMmvt = 1 is in flight: the flush that opened the batch waited
\* for its completion.
C22_ModeFlagCompletedFirst ==
  (pc \in AfterOpen1 /\ is_attached[self] /\ has_permit[self]) =>
    \A i \in 1..Len(inflight) : ~inflight[i].mode

\* This step leaves the body of a with self.wait_pvs() other than by its end.
BodyRaises == pc = "body" /\ pc' = "idle"
\* This step takes process variables out of the queue of session s.
Dequeues(s) == \E p \in Range(Queue(s)) : p \notin Range(Queue(s)')

\* C23: a step that leaves the body of wait_pvs by an exception hands the
\* exception to the caller, calls no flush and leaves the queue, the puts
\* in flight and every put_complete as they are; and a process variable
\* leaves a session's queue only in a step of a flush of that session that
\* finds put_complete of every queued process variable true.
C23_RaiseSkipsClose ==
  [][/\ BodyRaises =>
          /\ last'.exc # "none" /\ last'.left = "body"
          /\ call' = "none"
          /\ UNCHANGED <<queues, inflight, put_complete>>
     /\ \A s \in TXMs :
          Dequeues(s) =>
            /\ call = "flush" /\ self = s /\ call' = "none"
            /\ \A p \in Range(Queue(s)) : put_complete[p]]_vars
C23_Witness ==
  /\ last.exc = "TimeoutError" /\ last.left = "body" /\ pc = "idle"
  /\ "Motor_SampleX" \in Range(Queue(last.txm))
  /\ has_queue[last.txm]
  /\ ~put_complete["Motor_SampleX"]

====
